---- MODULE Spec2Model ----
(***************************************************************************)
(* The engagement tracker and the nudge service of Engagement_Intelligence *)
(* (services/engagementTracker.js, services/nudgeService.js), the Redis    *)
(* wrapper they store their state in (utils/redis.js) and the HTTP routes  *)
(* that call them (routes/engagement.js).                                  *)
(*                                                                         *)
(* Time is Date.now() counted in whole minutes.  A handler is cut where it *)
(* awaits a reply of Redis: what lies between two such awaits runs without *)
(* interruption on the event loop, and handlers of different requests      *)
(* interleave at the cuts.  A value that may be null or undefined is a     *)
(* sequence of length 0 (absent) or 1 (present).  Scores are hundredths.   *)
(***************************************************************************)
EXTENDS Integers, Sequences, FiniteSets, TLC

\* ------------------------------------------------------------------ bounds
MaxInteractions == 2
MaxSessionNudges == 2
MaxNudges == 4

\* -------------------------------------- program constants (minutes, 1/100)
SessionTTL == 60
NudgeTTL == 10080
HistoryCap == 50
RateCap == 3
OneHour == 60
CooldownHours == 6
RecentHours == 24
TrackHours == 168
NudgeExpiry == 1440
LOW_ENGAGEMENT == 30
MEDIUM_ENGAGEMENT == 60
DurationCap == 30
InteractionCap == 20
ActivityCap == 5
RecencyWindow == 10
MentorScore == 20
MentorCompletion == 10
ChallengeScore == 40

Requests == {"r1", "r2"}
Users == {"u1"}
CourseId == "c1"
ActivityTypes == {"page_view", "activity_completed", "heartbeat"}
ActivityIds == {"a1"}
TriggerTypes == {"low_engagement", "medium_engagement", "peer_challenge"}
TriggerScores == {25}

\* The instants (minutes) the clock is observed at, by specification.
StartTimes == {0}
SessionTimes == {10, 30}
InterleaveTimes == {10, 40}
TriggerTimes == {45, 90, 360}
RaceTimes == {30, 60}

Min(a, b) == IF a <= b THEN a ELSE b
Max(a, b) == IF a >= b THEN a ELSE b

None == << >>
Some(x) == << x >>
IsSome(o) == Len(o) = 1
Val(o) == o[1]

Put(f, k, v) == [x \in DOMAIN f \cup {k} |-> IF x = k THEN v ELSE f[x]]
Drop(f, k) == [x \in DOMAIN f \ {k} |-> f[x]]

\* slice(0, n) in the place of slice(-n): the first n elements.
SliceLast_keepsFirst(s, n) == IF Len(s) <= n THEN s ELSE SubSeq(s, 1, n)

\* Array.prototype.slice(-n): the last n elements.
SliceLast(s, n) == IF Len(s) <= n THEN s ELSE SubSeq(s, Len(s) - n + 1, Len(s))

\* --------------------------------------------------------------- the scorer
\* The inputs at which the weighted sum times 100 is mathematically k + 1/2 but
\* its IEEE double falls just below, so that Math.round gives k: each entry is
\* <<interactions, completed, minutes since last activity, first, last>> for
\* the whole session minutes first..last (inputs already capped).
TieRoundsDown ==
  {
    <<2,0,0,22,22>>, <<2,0,3,0,0>>, <<2,0,3,3,3>>, <<2,0,3,5,6>>, <<2,0,3,11,12>>, <<2,0,3,14,16>>,
    <<2,0,3,22,22>>, <<2,0,3,28,29>>, <<2,0,4,0,0>>, <<2,0,4,2,2>>, <<2,0,4,14,14>>, <<2,0,4,17,18>>,
    <<2,0,5,19,20>>, <<2,0,6,22,22>>, <<2,0,7,14,14>>, <<2,0,7,19,20>>, <<2,0,8,6,6>>, <<2,0,8,9,10>>,
    <<2,0,8,14,16>>, <<2,0,8,19,22>>, <<2,0,9,6,6>>, <<2,0,9,9,12>>, <<2,0,9,14,15>>, <<2,0,9,17,20>>,
    <<2,0,9,22,22>>, <<2,0,10,11,12>>, <<2,0,10,14,14>>, <<2,0,10,17,17>>, <<2,0,10,19,20>>, <<2,0,10,22,22>>,
    <<2,1,0,28,30>>, <<2,1,1,19,20>>, <<2,1,3,1,1>>, <<2,1,3,9,11>>, <<2,1,3,19,24>>, <<2,1,4,9,9>>,
    <<2,1,4,19,20>>, <<2,1,5,14,15>>, <<2,1,5,28,28>>, <<2,1,7,9,9>>, <<2,1,7,14,15>>, <<2,1,7,19,19>>,
    <<2,1,8,5,5>>, <<2,1,8,9,11>>, <<2,1,8,14,17>>, <<2,1,8,19,21>>, <<2,1,8,28,28>>, <<2,1,9,5,5>>,
    <<2,1,9,9,10>>, <<2,1,9,14,15>>, <<2,1,9,19,19>>, <<2,1,10,9,9>>, <<2,1,10,14,15>>, <<2,1,10,19,21>>,
    <<2,2,0,19,25>>, <<2,2,3,5,6>>, <<2,2,3,17,19>>, <<2,2,4,19,21>>, <<2,2,5,19,23>>, <<2,2,6,19,19>>,
    <<2,2,7,19,21>>, <<2,2,8,0,0>>, <<2,2,8,5,6>>, <<2,2,8,11,12>>, <<2,2,8,19,23>>, <<2,2,9,0,0>>,
    <<2,2,9,5,5>>, <<2,2,10,19,20>>, <<2,3,0,14,20>>, <<2,3,1,22,22>>, <<2,3,2,22,22>>, <<2,3,3,0,1>>,
    <<2,3,3,11,14>>, <<2,3,3,22,22>>, <<2,3,4,3,3>>, <<2,3,4,14,16>>, <<2,3,4,22,22>>, <<2,3,4,28,28>>,
    <<2,3,5,5,5>>, <<2,3,5,14,18>>, <<2,3,5,28,30>>, <<2,3,6,14,14>>, <<2,3,6,28,30>>, <<2,3,7,5,5>>,
    <<2,3,7,14,16>>, <<2,3,7,22,22>>, <<2,3,8,0,1>>, <<2,3,8,5,7>>, <<2,3,8,11,11>>, <<2,3,8,14,18>>,
    <<2,3,8,22,22>>, <<2,3,8,28,28>>, <<2,3,9,0,0>>, <<2,3,9,3,3>>, <<2,3,9,5,5>>, <<2,3,10,5,5>>,
    <<2,3,10,11,11>>, <<2,3,10,14,15>>, <<2,3,10,22,22>>, <<2,3,10,28,28>>, <<2,4,0,11,15>>, <<2,4,2,19,19>>,
    <<2,4,3,9,9>>, <<2,4,3,19,21>>, <<2,4,4,11,11>>, <<2,4,4,19,23>>, <<2,4,5,11,13>>, <<2,4,5,22,22>>,
    <<2,4,6,22,22>>, <<2,4,7,11,11>>, <<2,4,8,2,2>>, <<2,4,8,11,13>>, <<2,4,8,19,19>>, <<2,4,8,22,22>>,
    <<2,4,10,22,22>>, <<2,5,0,6,10>>, <<2,5,0,28,30>>, <<2,5,2,14,14>>, <<2,5,3,2,4>>, <<2,5,3,14,16>>,
    <<2,5,4,6,6>>, <<2,5,4,14,18>>, <<2,5,5,6,8>>, <<2,5,5,17,20>>, <<2,5,5,28,29>>, <<2,5,6,17,22>>,
    <<2,5,7,6,6>>, <<2,5,8,6,8>>, <<2,5,8,14,14>>, <<2,5,8,17,18>>, <<2,5,9,28,28>>, <<2,5,10,17,18>>,
    <<2,5,10,28,30>>, <<6,0,0,28,30>>, <<6,0,1,19,20>>, <<6,0,3,0,1>>, <<6,0,3,7,7>>, <<6,0,3,9,11>>,
    <<6,0,3,19,24>>, <<6,0,4,3,3>>, <<6,0,4,9,9>>, <<6,0,4,19,20>>, <<6,0,5,14,15>>, <<6,0,5,28,28>>,
    <<6,0,7,9,9>>, <<6,0,7,14,15>>, <<6,0,7,19,19>>, <<6,0,8,1,1>>, <<6,0,8,3,5>>, <<6,0,8,9,11>>,
    <<6,0,8,14,17>>, <<6,0,8,19,21>>, <<6,0,8,28,28>>, <<6,0,9,1,1>>, <<6,0,9,4,5>>, <<6,0,9,7,7>>,
    <<6,0,9,9,10>>, <<6,0,9,14,15>>, <<6,0,9,19,19>>, <<6,0,10,7,7>>, <<6,0,10,9,9>>, <<6,0,10,14,15>>,
    <<6,0,10,19,21>>, <<6,1,0,19,25>>, <<6,1,1,14,15>>, <<6,1,2,28,29>>, <<6,1,3,4,6>>, <<6,1,3,14,19>>,
    <<6,1,3,28,30>>, <<6,1,4,4,4>>, <<6,1,4,14,15>>, <<6,1,4,19,21>>, <<6,1,4,28,30>>, <<6,1,5,9,10>>,
    <<6,1,5,19,23>>, <<6,1,6,19,19>>, <<6,1,7,4,4>>, <<6,1,7,9,10>>, <<6,1,7,14,14>>, <<6,1,7,19,21>>,
    <<6,1,8,0,0>>, <<6,1,8,4,6>>, <<6,1,8,9,12>>, <<6,1,8,14,16>>, <<6,1,8,19,23>>, <<6,1,8,28,29>>,
    <<6,1,9,0,0>>, <<6,1,9,4,5>>, <<6,1,9,9,10>>, <<6,1,9,14,14>>, <<6,1,10,4,4>>, <<6,1,10,9,10>>,
    <<6,1,10,14,16>>, <<6,1,10,19,20>>, <<6,2,0,14,20>>, <<6,2,3,0,1>>, <<6,2,3,14,14>>, <<6,2,4,14,16>>,
    <<6,2,4,28,28>>, <<6,2,5,14,18>>, <<6,2,5,28,30>>, <<6,2,6,14,14>>, <<6,2,6,28,30>>, <<6,2,7,14,16>>,
    <<6,2,8,0,1>>, <<6,2,8,7,7>>, <<6,2,8,14,18>>, <<6,2,8,28,28>>, <<6,2,9,0,0>>, <<6,2,10,14,15>>,
    <<6,2,10,28,28>>, <<6,3,0,9,15>>, <<6,3,2,19,19>>, <<6,3,3,7,9>>, <<6,3,3,19,21>>, <<6,3,4,9,11>>,
    <<6,3,4,19,23>>, <<6,3,5,0,0>>, <<6,3,5,9,13>>, <<6,3,5,19,25>>, <<6,3,6,9,9>>, <<6,3,6,19,27>>,
    <<6,3,7,0,0>>, <<6,3,7,9,11>>, <<6,3,7,19,21>>, <<6,3,8,0,2>>, <<6,3,8,9,13>>, <<6,3,8,19,23>>,
    <<6,3,9,0,0>>, <<6,3,9,19,21>>, <<6,3,10,0,0>>, <<6,3,10,9,10>>, <<6,3,10,19,23>>, <<6,4,0,7,10>>,
    <<6,4,0,28,30>>, <<6,4,2,14,14>>, <<6,4,3,3,4>>, <<6,4,3,14,16>>, <<6,4,4,14,18>>, <<6,4,5,7,8>>,
    <<6,4,5,19,20>>, <<6,4,5,28,29>>, <<6,4,6,19,22>>, <<6,4,8,7,8>>, <<6,4,8,14,14>>, <<6,4,9,28,28>>,
    <<6,4,10,28,30>>, <<6,5,0,1,5>>, <<6,5,0,19,26>>, <<6,5,2,9,9>>, <<6,5,3,9,11>>, <<6,5,3,19,20>>,
    <<6,5,4,1,1>>, <<6,5,4,9,13>>, <<6,5,4,19,22>>, <<6,5,5,1,3>>, <<6,5,5,14,15>>, <<6,5,5,19,24>>,
    <<6,5,6,14,17>>, <<6,5,7,1,1>>, <<6,5,7,19,19>>, <<6,5,8,1,3>>, <<6,5,8,9,9>>, <<6,5,8,19,21>>,
    <<6,5,9,19,23>>, <<6,5,10,19,25>>, <<10,0,0,19,25>>, <<10,0,2,28,29>>, <<10,0,3,2,2>>, <<10,0,3,5,6>>,
    <<10,0,3,17,19>>, <<10,0,3,28,30>>, <<10,0,4,19,21>>, <<10,0,4,28,30>>, <<10,0,5,10,10>>, <<10,0,5,19,23>>,
    <<10,0,6,19,19>>, <<10,0,7,10,10>>, <<10,0,7,19,21>>, <<10,0,8,0,0>>, <<10,0,8,5,6>>, <<10,0,8,10,12>>,
    <<10,0,8,19,23>>, <<10,0,8,28,29>>, <<10,0,9,0,0>>, <<10,0,9,2,2>>, <<10,0,9,5,5>>, <<10,0,9,10,10>>,
    <<10,0,10,2,2>>, <<10,0,10,10,10>>, <<10,0,10,19,20>>, <<10,1,0,17,20>>, <<10,1,1,10,10>>, <<10,1,1,19,22>>,
    <<10,1,2,19,24>>, <<10,1,3,0,1>>, <<10,1,3,10,14>>, <<10,1,3,19,26>>, <<10,1,4,10,10>>, <<10,1,4,19,28>>,
    <<10,1,5,5,5>>, <<10,1,5,17,18>>, <<10,1,5,28,30>>, <<10,1,6,19,20>>, <<10,1,6,28,30>>, <<10,1,7,5,5>>,
    <<10,1,7,19,22>>, <<10,1,8,0,1>>, <<10,1,8,5,7>>, <<10,1,8,10,11>>, <<10,1,8,17,24>>, <<10,1,8,28,28>>,
    <<10,1,9,0,0>>, <<10,1,9,5,5>>, <<10,1,9,19,20>>, <<10,1,10,5,5>>, <<10,1,10,10,11>>, <<10,1,10,19,22>>,
    <<10,1,10,28,28>>, <<10,2,0,10,15>>, <<10,2,2,19,19>>, <<10,2,3,9,9>>, <<10,2,3,19,21>>, <<10,2,4,10,11>>,
    <<10,2,4,19,23>>, <<10,2,5,10,13>>, <<10,2,5,19,25>>, <<10,2,6,19,27>>, <<10,2,7,10,11>>, <<10,2,7,19,21>>,
    <<10,2,8,2,2>>, <<10,2,8,10,13>>, <<10,2,8,19,23>>, <<10,2,9,19,21>>, <<10,2,10,10,10>>, <<10,2,10,19,23>>,
    <<10,3,0,5,10>>, <<10,3,0,28,30>>, <<10,3,3,2,4>>, <<10,3,4,5,6>>, <<10,3,4,17,18>>, <<10,3,5,5,8>>,
    <<10,3,5,17,20>>, <<10,3,5,28,29>>, <<10,3,6,17,22>>, <<10,3,7,5,6>>, <<10,3,8,5,8>>, <<10,3,8,17,18>>,
    <<10,3,9,28,28>>, <<10,3,10,5,5>>, <<10,3,10,17,18>>, <<10,3,10,28,30>>, <<10,4,0,2,5>>, <<10,4,0,19,26>>,
    <<10,4,3,10,11>>, <<10,4,3,19,20>>, <<10,4,4,10,13>>, <<10,4,4,19,22>>, <<10,4,5,2,3>>, <<10,4,5,19,24>>,
    <<10,4,6,17,17>>, <<10,4,7,19,19>>, <<10,4,8,2,3>>, <<10,4,8,19,21>>, <<10,4,9,19,23>>, <<10,4,10,19,25>>,
    <<10,5,0,0,0>>, <<10,5,0,17,21>>, <<10,5,3,5,6>>, <<10,5,4,5,8>>, <<10,5,4,17,17>>, <<10,5,5,9,10>>,
    <<10,5,5,17,19>>, <<10,5,6,9,12>>, <<10,5,9,17,18>>, <<10,5,10,17,20>>, <<14,0,0,14,20>>, <<14,0,1,10,10>>,
    <<14,0,1,22,22>>, <<14,0,2,22,22>>, <<14,0,2,24,24>>, <<14,0,3,0,1>>, <<14,0,3,10,14>>, <<14,0,3,22,22>>,
    <<14,0,3,24,26>>, <<14,0,4,2,3>>, <<14,0,4,10,10>>, <<14,0,4,14,16>>, <<14,0,4,22,22>>, <<14,0,4,24,28>>,
    <<14,0,5,5,5>>, <<14,0,5,14,18>>, <<14,0,5,28,30>>, <<14,0,6,14,14>>, <<14,0,6,28,30>>, <<14,0,7,5,5>>,
    <<14,0,7,14,16>>, <<14,0,7,22,22>>, <<14,0,8,0,1>>, <<14,0,8,5,7>>, <<14,0,8,10,11>>, <<14,0,8,14,18>>,
    <<14,0,8,22,22>>, <<14,0,8,24,24>>, <<14,0,8,28,28>>, <<14,0,9,0,0>>, <<14,0,9,2,3>>, <<14,0,9,5,5>>,
    <<14,0,10,2,2>>, <<14,0,10,5,5>>, <<14,0,10,10,11>>, <<14,0,10,14,15>>, <<14,0,10,22,22>>, <<14,0,10,28,28>>,
    <<14,1,0,10,15>>, <<14,1,1,5,5>>, <<14,1,1,14,17>>, <<14,1,2,14,19>>, <<14,1,3,5,9>>, <<14,1,3,14,21>>,
    <<14,1,4,5,5>>, <<14,1,4,10,11>>, <<14,1,4,14,23>>, <<14,1,5,0,0>>, <<14,1,5,10,13>>, <<14,1,5,22,22>>,
    <<14,1,5,24,25>>, <<14,1,6,14,15>>, <<14,1,6,22,22>>, <<14,1,6,24,27>>, <<14,1,7,0,0>>, <<14,1,7,10,11>>,
    <<14,1,7,14,17>>, <<14,1,8,0,2>>, <<14,1,8,5,6>>, <<14,1,8,10,19>>, <<14,1,8,22,22>>, <<14,1,9,0,0>>,
    <<14,1,9,14,15>>, <<14,1,10,0,0>>, <<14,1,10,5,6>>, <<14,1,10,10,10>>, <<14,1,10,14,17>>, <<14,1,10,22,22>>,
    <<14,2,0,5,10>>, <<14,2,0,28,30>>, <<14,2,2,14,14>>, <<14,2,3,2,4>>, <<14,2,3,14,16>>, <<14,2,4,5,6>>,
    <<14,2,4,14,18>>, <<14,2,5,5,8>>, <<14,2,5,14,20>>, <<14,2,5,28,29>>, <<14,2,6,14,22>>, <<14,2,7,5,6>>,
    <<14,2,7,14,16>>, <<14,2,8,5,8>>, <<14,2,8,14,18>>, <<14,2,9,14,16>>, <<14,2,9,28,28>>, <<14,2,10,5,5>>,
    <<14,2,10,14,18>>, <<14,2,10,28,30>>, <<14,3,0,0,5>>, <<14,3,0,22,22>>, <<14,3,0,24,26>>, <<14,3,3,10,11>>,
    <<14,3,4,0,1>>, <<14,3,4,10,13>>, <<14,3,4,22,22>>, <<14,3,5,0,3>>, <<14,3,5,10,15>>, <<14,3,5,22,22>>,
    <<14,3,5,24,24>>, <<14,3,6,10,17>>, <<14,3,7,0,1>>, <<14,3,7,10,11>>, <<14,3,8,0,3>>, <<14,3,8,10,13>>,
    <<14,3,9,10,11>>, <<14,3,9,22,22>>, <<14,3,10,0,0>>, <<14,3,10,10,13>>, <<14,3,10,22,22>>, <<14,3,10,24,25>>,
    <<14,4,0,0,0>>, <<14,4,0,14,21>>, <<14,4,3,5,6>>, <<14,4,3,14,15>>, <<14,4,4,5,8>>, <<14,4,4,14,17>>,
    <<14,4,5,10,10>>, <<14,4,5,14,19>>, <<14,4,6,10,12>>, <<14,4,7,14,14>>, <<14,4,8,14,16>>, <<14,4,9,14,18>>,
    <<14,4,10,14,20>>, <<14,5,0,10,16>>, <<14,5,3,0,1>>, <<14,5,3,10,10>>, <<14,5,4,0,3>>, <<14,5,4,10,12>>,
    <<14,5,5,2,5>>, <<14,5,5,10,14>>, <<14,5,6,2,7>>, <<14,5,6,28,28>>, <<14,5,8,2,3>>, <<14,5,8,10,11>>,
    <<14,5,9,10,13>>, <<14,5,10,2,3>>, <<14,5,10,10,15>>, <<18,0,0,11,15>>, <<18,0,2,19,19>>, <<18,0,3,7,9>>,
    <<18,0,3,19,21>>, <<18,0,4,11,11>>, <<18,0,4,19,23>>, <<18,0,5,11,13>>, <<18,0,5,22,22>>, <<18,0,5,24,25>>,
    <<18,0,6,22,22>>, <<18,0,6,24,27>>, <<18,0,7,11,11>>, <<18,0,8,2,2>>, <<18,0,8,11,13>>, <<18,0,8,19,19>>,
    <<18,0,8,22,22>>, <<18,0,10,22,22>>, <<18,1,0,7,10>>, <<18,1,1,11,12>>, <<18,1,2,11,14>>, <<18,1,3,2,4>>,
    <<18,1,3,11,16>>, <<18,1,3,22,22>>, <<18,1,4,11,18>>, <<18,1,5,7,8>>, <<18,1,5,19,20>>, <<18,1,6,19,22>>,
    <<18,1,7,11,12>>, <<18,1,7,22,22>>, <<18,1,8,7,8>>, <<18,1,8,11,14>>, <<18,1,8,22,22>>, <<18,1,9,22,22>>,
    <<18,1,10,11,12>>, <<18,1,10,22,22>>, <<18,2,0,2,5>>, <<18,2,0,22,22>>, <<18,2,0,24,26>>, <<18,2,3,11,11>>,
    <<18,2,4,11,13>>, <<18,2,4,22,22>>, <<18,2,5,2,3>>, <<18,2,5,11,15>>, <<18,2,5,22,22>>, <<18,2,5,24,24>>,
    <<18,2,6,11,17>>, <<18,2,7,11,11>>, <<18,2,8,2,3>>, <<18,2,8,11,13>>, <<18,2,9,11,11>>, <<18,2,9,22,22>>,
    <<18,2,10,11,13>>, <<18,2,10,22,22>>, <<18,2,10,24,25>>, <<18,3,0,0,0>>, <<18,3,0,19,21>>, <<18,3,4,7,8>>,
    <<18,3,5,7,10>>, <<18,3,5,19,19>>, <<18,3,6,7,12>>, <<18,3,8,7,8>>, <<18,3,10,7,8>>, <<18,3,10,19,20>>,
    <<18,4,0,11,16>>, <<18,4,4,2,3>>, <<18,4,4,11,12>>, <<18,4,5,11,14>>, <<18,4,6,7,7>>, <<18,4,8,11,11>>,
    <<18,4,9,11,13>>, <<18,4,10,11,15>>, <<18,5,0,7,11>>, <<18,5,4,7,7>>, <<18,5,5,0,0>>, <<18,5,5,7,9>>,
    <<18,5,6,0,2>>, <<18,5,6,22,22>>, <<18,5,9,7,8>>, <<18,5,10,7,10>>
  }

\* The weighted sum without the cap of the interaction term.
WeightedSum400_uncapped(duration, interactions, completed, sinceLast) ==
    4 * Min(duration, DurationCap)
  + 5 * interactions
  + 20 * Min(completed, ActivityCap)
  + 8 * Max(0, RecencyWindow - sinceLast)

\* The weighted sum with the duration and interaction weights exchanged.
WeightedSum400_swapped(duration, interactions, completed, sinceLast) ==
    5 * Min(duration, DurationCap)
  + 4 * Min(interactions, InteractionCap)
  + 20 * Min(completed, ActivityCap)
  + 8 * Max(0, RecencyWindow - sinceLast)

\* The weighted sum with the recency term growing with the idle minutes.
WeightedSum400_idleRewarded(duration, interactions, completed, sinceLast) ==
    4 * Min(duration, DurationCap)
  + 5 * Min(interactions, InteractionCap)
  + 20 * Min(completed, ActivityCap)
  + 8 * Min(sinceLast, RecencyWindow)

\* The weighted sum without the recency term.
WeightedSum400_noRecency(duration, interactions, completed, sinceLast) ==
    4 * Min(duration, DurationCap)
  + 5 * Min(interactions, InteractionCap)
  + 20 * Min(completed, ActivityCap)

\* 400 times the weighted sum of calculateEngagementScore, exact.
WeightedSum400(duration, interactions, completed, sinceLast) ==
    4 * Min(duration, DurationCap)
  + 5 * Min(interactions, InteractionCap)
  + 20 * Min(completed, ActivityCap)
  + 8 * Max(0, RecencyWindow - sinceLast)

\* Math.round(engagementScore * 100), the score in hundredths.
RoundedScore(duration, interactions, completed, sinceLast) ==
  LET s == WeightedSum400(duration, interactions, completed, sinceLast)
      d == Min(duration, DurationCap)
      i == Min(interactions, InteractionCap)
      c == Min(completed, ActivityCap)
      r == Min(sinceLast, RecencyWindow)
      down == /\ s % 4 = 2
              /\ \E t \in TieRoundsDown :
                   t[1] = i /\ t[2] = c /\ t[3] = r /\ t[4] <= d /\ d <= t[5]
  IN  IF down THEN (s - 2) \div 4 ELSE (s + 2) \div 4

calculateEngagementScore(sessionData, t) ==
  RoundedScore(t - sessionData.startTime,
               sessionData.interactions,
               Len(sessionData.completedActivities),
               t - sessionData.lastActivity)

\* ------------------------------------------------------------------- state
VARIABLES
  now,            \* Date.now()
  isConnected,    \* RedisClient.isConnected
  sessions,       \* Redis keys session:<id>: id -> [value, expireAt]
  userNudges,     \* Redis keys user_nudges:<userId>: userId -> [value, expireAt]
  notifications,  \* Redis lists notifications:<userId>, newest first
  emitted,        \* ids of the nudges emitted to the rooms user_<userId>
  call,           \* per request: where its handler stands, and its locals
  ret,            \* per request: what its last handler answered
  issued,         \* the session ids startSession has returned
  ended           \* endSession calls completed while nothing else was in
                  \* flight, whose id was not started again since

vars == << now, isConnected, sessions, userNudges, notifications, emitted,
           call, ret, issued, ended >>

Idle ==
  [pc |-> "idle", op |-> "none", sessionId |-> None, activityData |-> None,
   sessionData |-> None, userId |-> None, context |-> None,
   recentNudges |-> << >>, nudge |-> None, triggers |-> << >>]

Done == [Idle EXCEPT !.pc = "done"]

NoRet ==
  [op |-> "none", outcome |-> "none", code |-> 0, sessionId |-> None,
   sessionData |-> None, nudge |-> None, throttled |-> FALSE,
   nudgeOutcome |-> "none", triggers |-> << >>, senderRaised |-> FALSE]

Init ==
  /\ now = 0
  /\ isConnected = TRUE
  /\ sessions = << >>
  /\ userNudges = << >>
  /\ notifications = [u \in Users |-> << >>]
  /\ emitted = {}
  /\ call = [p \in Requests |-> Idle]
  /\ ret = [p \in Requests |-> NoRet]
  /\ issued = {}
  /\ ended = {}

\* ------------------------------------------------------- utils/redis.js
Live(keys, k) == k \in DOMAIN keys /\ now < keys[k].expireAt

\* get without the isConnected guard of line 51.
RedisGet_unguarded(keys, k) ==
  IF Live(keys, k) THEN Some(keys[k].value) ELSE None

RedisGet(keys, k) ==
  IF isConnected /\ Live(keys, k) THEN Some(keys[k].value) ELSE None

\* setex without the isConnected guard of line 83.
RedisSetex_unguarded(keys, k, seconds, value) ==
  Put(keys, k, [value |-> value, expireAt |-> now + seconds])

RedisSetex(keys, k, seconds, value) ==
  IF isConnected THEN Put(keys, k, [value |-> value, expireAt |-> now + seconds])
  ELSE keys

RedisDel(keys, k) ==
  IF isConnected /\ k \in DOMAIN keys THEN Drop(keys, k) ELSE keys

RedisLpush(lists, k, value) ==
  IF isConnected THEN [lists EXCEPT ![k] = << value >> \o @] ELSE lists

\* JSON.stringify followed by JSON.parse: an undefined array element comes
\* back as null, everything else the records hold comes back as it was.
JsonArray(a) == [n \in 1..Len(a) |-> IF a[n] = "undefined" THEN "null" ELSE a[n]]
JsonSession(s) == [s EXCEPT !.completedActivities = JsonArray(@)]

\* ------------------------------------------------- services/nudgeService.js
nudgeTemplates ==
  [low_engagement |->
     [type |-> "reminder", title |-> "Don't lose momentum!",
      actionText |-> "Resume Learning", priority |-> "high"],
   medium_engagement |->
     [type |-> "motivational", title |-> "You're doing well!",
      actionText |-> "Take Challenge", priority |-> "medium"],
   inactivity |->
     [type |-> "reminder", title |-> "We miss you!",
      actionText |-> "Continue Learning", priority |-> "medium"],
   peer_challenge |->
     [type |-> "peer_challenge", title |-> "Challenge a friend!",
      actionText |-> "Start Challenge", priority |-> "low"]]

getUserNudgeProfile(userId) == [prefersChallenges |-> TRUE]

getCourseProgress(userId, courseId) == [completionRate |-> 45]

\* selectNudgeStrategy with the challenge rule tested against the mentor threshold.
selectNudgeStrategy_lowChallenge(userId, courseId, context) ==
  LET userProfile == getUserNudgeProfile(userId)
      selectedTemplate ==
        IF context.type \in DOMAIN nudgeTemplates
        THEN nudgeTemplates[context.type]
        ELSE nudgeTemplates.medium_engagement
  IN  IF context.engagementScore > MentorScore /\ userProfile.prefersChallenges
      THEN nudgeTemplates.peer_challenge
      ELSE selectedTemplate

\* selectNudgeStrategy (lines 87-112).
selectNudgeStrategy(userId, courseId, context) ==
  LET userProfile == getUserNudgeProfile(userId)
      courseProgress == getCourseProgress(userId, courseId)
      selectedTemplate ==
        IF context.type \in DOMAIN nudgeTemplates
        THEN nudgeTemplates[context.type]
        ELSE nudgeTemplates.medium_engagement
  IN  IF /\ context.engagementScore < MentorScore
         /\ courseProgress.completionRate < MentorCompletion
      THEN [selectedTemplate EXCEPT !.type = "mentor_connect",
                                    !.title = "Need help getting started?",
                                    !.actionText = "Find Mentor"]
      ELSE IF context.engagementScore > ChallengeScore /\ userProfile.prefersChallenges
           THEN nudgeTemplates.peer_challenge
           ELSE selectedTemplate

\* selectDeliveryChannel with the low priorities sent in-app as well.
selectDeliveryChannel_neverEmail(userId, priority) ==
  IF priority = "high" THEN "websocket" ELSE "in_app"

\* selectDeliveryChannel (lines 206-217).
selectDeliveryChannel(userId, priority) ==
  LET userPrefs == [preferredChannel |-> "in_app"]
  IN  IF priority = "high" THEN "websocket"
      ELSE IF priority = "medium" THEN userPrefs.preferredChannel
      ELSE "email"

createNudge(userId, courseId, config, t) ==
  [id |-> << userId, t >>, userId |-> userId, courseId |-> courseId,
   type |-> config.type, title |-> config.title, actionText |-> config.actionText,
   priority |-> config.priority, timestamp |-> t, status |-> "pending",
   deliveryChannel |-> selectDeliveryChannel(userId, config.priority),
   expiresAt |-> t + NudgeExpiry, sentAt |-> None]

\* shouldThrottle with the cooldown applied whatever the type.
shouldThrottle_anyType(recentNudges, type, t) ==
  LET InLastHour(n) == t - n.timestamp < OneHour
      AnyRecent(n) == t - n.timestamp < CooldownHours * OneHour
  IN  \/ Len(SelectSeq(recentNudges, InLastHour)) >= RateCap
      \/ Len(SelectSeq(recentNudges, AnyRecent)) > 0

\* shouldThrottle with the hourly cap one too high.
shouldThrottle_above(recentNudges, type, t) ==
  LET InLastHour(n) == t - n.timestamp < OneHour
      SameTypeRecent(n) == n.type = type /\ t - n.timestamp < CooldownHours * OneHour
  IN  \/ Len(SelectSeq(recentNudges, InLastHour)) > RateCap
      \/ Len(SelectSeq(recentNudges, SameTypeRecent)) > 0

\* shouldThrottle with the hourly cap one too low.
shouldThrottle_early(recentNudges, type, t) ==
  LET InLastHour(n) == t - n.timestamp < OneHour
      SameTypeRecent(n) == n.type = type /\ t - n.timestamp < CooldownHours * OneHour
  IN  \/ Len(SelectSeq(recentNudges, InLastHour)) >= RateCap - 1
      \/ Len(SelectSeq(recentNudges, SameTypeRecent)) > 0

\* shouldThrottle (lines 222-242), t being its Date.now().
shouldThrottle(recentNudges, type, t) ==
  LET InLastHour(n) == t - n.timestamp < OneHour
      SameTypeRecent(n) == n.type = type /\ t - n.timestamp < CooldownHours * OneHour
  IN  \/ Len(SelectSeq(recentNudges, InLastHour)) >= RateCap
      \/ Len(SelectSeq(recentNudges, SameTypeRecent)) > 0

getRecentNudges(userId, hours) ==
  LET cutoff == now - hours * OneHour
      nudges == RedisGet(userNudges, userId)
      After(n) == n.timestamp > cutoff
  IN  IF IsSome(nudges) THEN SelectSeq(Val(nudges), After) ELSE << >>

\* What is stored of user_nudges:<userId>, expired or not read included.
History(userId) ==
  IF Live(userNudges, userId) THEN userNudges[userId].value ELSE << >>

\* The call frame on entering triggerNudge: the history is read (line 55).
EnterTrigger(frame, userId, context) ==
  [frame EXCEPT !.pc = "tn_decide", !.userId = Some(userId),
                !.context = Some(context),
                !.recentNudges = getRecentNudges(userId, RecentHours),
                !.triggers = Append(@, context.type)]

\* RouteCode, were the null of a throttled call answered as an error.
RouteCode_nullIsError(nudgeOutcome) ==
  IF nudgeOutcome \in {"threw", "throttled"} THEN 500 ELSE 200

\* The status of the route's answer: the catch blocks answer 500.
RouteCode(nudgeOutcome) == IF nudgeOutcome = "threw" THEN 500 ELSE 200

\* What the handler of request p answers once triggerNudge (or, for a custom
\* nudge, create-send-track) has returned `nudge`, was throttled, or threw.
Answer(p, nudgeOutcome, nudge, raised) ==
  LET f == call[p]
      threw == nudgeOutcome = "threw"
  IN  [NoRet EXCEPT
         !.op = f.op,
         !.outcome = IF threw THEN "threw"
                     ELSE IF f.op = "triggerNudge" /\ nudgeOutcome = "throttled"
                          THEN "null" ELSE "returned",
         !.code = RouteCode(nudgeOutcome),
         !.throttled = f.op = "triggerNudge" /\ nudgeOutcome = "throttled",
         !.sessionId = f.sessionId,
         !.sessionData = IF f.op = "updateActivity" /\ ~threw THEN f.sessionData ELSE None,
         !.nudge = nudge,
         !.nudgeOutcome = nudgeOutcome,
         !.triggers = f.triggers,
         !.senderRaised = raised]

Finish(p, nudgeOutcome, nudge, raised) ==
  /\ ret' = [ret EXCEPT ![p] = Answer(p, nudgeOutcome, nudge, raised)]
  /\ call' = [call EXCEPT ![p] = Done]

\* The route POST /api/nudges/trigger up to the first await of triggerNudge.
triggerNudge_call(p, userId, context) ==
  /\ call[p].pc = "idle"
  /\ call' = [call EXCEPT ![p] =
                EnterTrigger([Idle EXCEPT !.op = "triggerNudge"], userId, context)]
  /\ UNCHANGED << now, isConnected, sessions, userNudges, notifications,
                  emitted, ret, issued, ended >>

\* triggerNudge lines 56-65: throttle, else select the strategy and create.
triggerNudge_decide(p) ==
  LET f == call[p]
      userId == Val(f.userId)
      context == Val(f.context)
  IN  /\ f.pc = "tn_decide"
      /\ IF shouldThrottle(f.recentNudges, context.type, now)
         THEN Finish(p, "throttled", None, FALSE)
         ELSE /\ call' = [call EXCEPT
                            ![p].pc = "tn_send",
                            ![p].nudge = Some(createNudge(userId, CourseId,
                                           selectNudgeStrategy(userId, CourseId, context),
                                           now))]
              /\ UNCHANGED ret
      /\ UNCHANGED << now, isConnected, sessions, userNudges, notifications,
                      emitted, issued, ended >>

\* customNudge_call, were the custom nudge put to the throttle first.
customNudge_call_throttled(p, userId, type, priority) ==
  LET customConfig == [type |-> type, title |-> "custom", actionText |-> "Take Action",
                       priority |-> priority]
      entered == [Idle EXCEPT !.op = "customNudge", !.userId = Some(userId)]
  IN  /\ call[p].pc = "idle"
      /\ IF shouldThrottle(getRecentNudges(userId, RecentHours), type, now)
         THEN /\ call' = [call EXCEPT ![p] = Done]
              /\ ret' = [ret EXCEPT ![p] =
                           [NoRet EXCEPT !.op = "customNudge", !.outcome = "null",
                                         !.code = 200, !.throttled = TRUE,
                                         !.nudgeOutcome = "throttled"]]
         ELSE /\ call' = [call EXCEPT ![p] =
                            [entered EXCEPT !.pc = "tn_send",
                                            !.nudge = Some(createNudge(userId, CourseId,
                                                                       customConfig, now))]]
              /\ UNCHANGED ret
      /\ UNCHANGED << now, isConnected, sessions, userNudges, notifications,
                      emitted, issued, ended >>

\* The route POST /api/nudges/custom, sent immediately: no throttle check.
customNudge_call(p, userId, type, priority) ==
  LET customConfig == [type |-> type, title |-> "custom", actionText |-> "Take Action",
                       priority |-> priority]
  IN  /\ call[p].pc = "idle"
      /\ call' = [call EXCEPT ![p] =
                    [Idle EXCEPT !.pc = "tn_send", !.op = "customNudge",
                                 !.userId = Some(userId),
                                 !.nudge = Some(createNudge(userId, CourseId,
                                                            customConfig, now))]]
      /\ UNCHANGED << now, isConnected, sessions, userNudges, notifications,
                      emitted, ret, issued, ended >>

\* Sent without the assignments of lines 159-160.
Sent_unmarked(frame) ==
  [frame EXCEPT !.pc = "tn_track",
                !.recentNudges = getRecentNudges(Val(frame.userId), TrackHours)]

\* The end of sendNudge (lines 159-160) and trackNudge's read (line 267).
Sent(frame) ==
  [frame EXCEPT !.pc = "tn_track",
                !.nudge = Some([Val(@) EXCEPT !.status = "sent", !.sentAt = Some(now)]),
                !.recentNudges = getRecentNudges(Val(frame.userId), TrackHours)]

\* sendWebSocketNudge: io.to(room).emit raises or delivers.
Emit(p, raises) ==
  IF raises
  THEN /\ Finish(p, "threw", None, TRUE)
       /\ UNCHANGED emitted
  ELSE /\ emitted' = emitted \cup {Val(call[p].nudge).id}
       /\ call' = [call EXCEPT ![p] = Sent(call[p])]
       /\ UNCHANGED ret

\* sendNudge up to its first await of Redis, by delivery channel.
sendNudge(p, raises) ==
  LET f == call[p]
      nudge == Val(f.nudge)
  IN  /\ f.pc = "tn_send"
      /\ CASE nudge.deliveryChannel = "in_app" ->
                /\ notifications' = RedisLpush(notifications, nudge.userId,
                                               [nudge |-> nudge, channel |-> "in_app"])
                /\ call' = [call EXCEPT ![p].pc = "tn_emit"]
                /\ UNCHANGED << ret, emitted >>
           [] nudge.deliveryChannel = "websocket" ->
                /\ Emit(p, raises)
                /\ UNCHANGED notifications
           [] OTHER ->
                /\ call' = [call EXCEPT ![p] = Sent(f)]
                /\ UNCHANGED << ret, emitted, notifications >>
      /\ UNCHANGED << now, isConnected, sessions, userNudges, issued, ended >>

\* sendInAppNotification after its lpush: the emit to the socket.
sendInAppNotification_emit(p, raises) ==
  /\ call[p].pc = "tn_emit"
  /\ Emit(p, raises)
  /\ UNCHANGED << now, isConnected, sessions, userNudges, notifications, issued, ended >>

\* trackNudge lines 268-277, and the return of the nudge.
trackNudge(p) ==
  LET f == call[p]
      nudge == Val(f.nudge)
      recentNudges == SliceLast(Append(f.recentNudges, nudge), HistoryCap)
  IN  /\ f.pc = "tn_track"
      /\ userNudges' = RedisSetex(userNudges, nudge.userId, NudgeTTL, recentNudges)
      /\ Finish(p, "returned", f.nudge, FALSE)
      /\ UNCHANGED << now, isConnected, sessions, notifications, emitted, issued, ended >>

\* ------------------------------------------- services/engagementTracker.js
SessionId(userId, t) == << userId, t >>

getSession(sessionId) == RedisGet(sessions, sessionId)

Stored(sessionId) == sessions[sessionId].value

\* startSession, and the route POST /session/start around it.
startSession(p, userId) ==
  LET sessionId == SessionId(userId, now)
      sessionData ==
        [userId |-> userId, courseId |-> CourseId, sessionId |-> sessionId,
         startTime |-> now, lastActivity |-> now, interactions |-> 0,
         pageViews |-> 0, timeSpent |-> 0, completedActivities |-> << >>,
         engagementScore |-> None]
  IN  /\ call[p].pc = "idle"
      /\ sessions' = RedisSetex(sessions, sessionId, SessionTTL, JsonSession(sessionData))
      /\ issued' = issued \cup {sessionId}
      /\ ended' = ended \ {sessionId}
      /\ ret' = [ret EXCEPT ![p] =
                   [NoRet EXCEPT !.op = "startSession", !.outcome = "returned",
                                 !.code = 200, !.sessionId = Some(sessionId)]]
      /\ call' = [call EXCEPT ![p] = Done]
      /\ UNCHANGED << now, isConnected, userNudges, notifications, emitted >>

\* The route GET /session/:sessionId.
getSessionRoute(p, sessionId) ==
  LET sessionData == getSession(sessionId)
  IN  /\ call[p].pc = "idle"
      /\ ret' = [ret EXCEPT ![p] =
                   [NoRet EXCEPT !.op = "getSession",
                                 !.outcome = IF IsSome(sessionData) THEN "returned" ELSE "null",
                                 !.code = IF IsSome(sessionData) THEN 200 ELSE 404,
                                 !.sessionId = Some(sessionId),
                                 !.sessionData = sessionData]]
      /\ call' = [call EXCEPT ![p] = Done]
      /\ UNCHANGED << now, isConnected, sessions, userNudges, notifications,
                      emitted, issued, ended >>

\* updateActivity up to its first await: the session is read.
updateActivity_getSession(p, sessionId, activityData) ==
  /\ call[p].pc = "idle"
  /\ call' = [call EXCEPT ![p] =
                [Idle EXCEPT !.pc = "ua_apply", !.op = "updateActivity",
                             !.sessionId = Some(sessionId),
                             !.activityData = Some(activityData),
                             !.sessionData = getSession(sessionId)]]
  /\ UNCHANGED << now, isConnected, sessions, userNudges, notifications,
                  emitted, ret, issued, ended >>

\* ApplyActivity, were a page view not counted as an interaction.
ApplyActivity_viewUncounted(sessionData, activityData, t) ==
  LET touched == [sessionData EXCEPT
                    !.lastActivity = t,
                    !.interactions = IF activityData.type = "page_view" THEN @ ELSE @ + 1,
                    !.timeSpent = t - sessionData.startTime,
                    !.pageViews = IF activityData.type = "page_view" THEN @ + 1 ELSE @,
                    !.completedActivities =
                       IF activityData.type = "activity_completed"
                       THEN Append(@, activityData.activityId) ELSE @]
  IN  [touched EXCEPT !.engagementScore = Some(calculateEngagementScore(touched, t))]

\* ApplyActivity, were a heartbeat not counted as an interaction.
ApplyActivity_heartbeatFree(sessionData, activityData, t) ==
  LET touched == [sessionData EXCEPT
                    !.lastActivity = t,
                    !.interactions = IF activityData.type = "heartbeat" THEN @ ELSE @ + 1,
                    !.timeSpent = t - sessionData.startTime,
                    !.pageViews = IF activityData.type = "page_view" THEN @ + 1 ELSE @,
                    !.completedActivities =
                       IF activityData.type = "activity_completed"
                       THEN Append(@, activityData.activityId) ELSE @]
  IN  [touched EXCEPT !.engagementScore = Some(calculateEngagementScore(touched, t))]

\* The session as lines 50-65 of updateActivity leave it.
ApplyActivity(sessionData, activityData, t) ==
  LET touched == [sessionData EXCEPT
                    !.lastActivity = t,
                    !.interactions = @ + 1,
                    !.timeSpent = t - sessionData.startTime,
                    !.pageViews = IF activityData.type = "page_view" THEN @ + 1 ELSE @,
                    !.completedActivities =
                       IF activityData.type = "activity_completed"
                       THEN Append(@, activityData.activityId) ELSE @]
  IN  [touched EXCEPT !.engagementScore = Some(calculateEngagementScore(touched, t))]

UpdateAnswer(p, sessionData, outcome, code) ==
  [NoRet EXCEPT !.op = "updateActivity", !.outcome = outcome, !.code = code,
                !.sessionId = call[p].sessionId, !.sessionData = sessionData,
                !.triggers = call[p].triggers]

\* Snapshot, were the session read again at the time of the write.
Snapshot_reread(p) == getSession(Val(call[p].sessionId))

\* The local sessionData of updateActivity: what line 44 read.
Snapshot(p) == call[p].sessionData

\* updateActivity after the read: not found, or the update and its write.
updateActivity_apply(p) ==
  /\ call[p].pc = "ua_apply"
  /\ IF ~IsSome(Snapshot(p))
     THEN /\ ret' = [ret EXCEPT ![p] = UpdateAnswer(p, None, "null", 404)]
          /\ call' = [call EXCEPT ![p] = Done]
          /\ UNCHANGED sessions
     ELSE LET sessionData == ApplyActivity(Val(Snapshot(p)),
                                           Val(call[p].activityData), now)
          IN  /\ sessions' = RedisSetex(sessions, Val(call[p].sessionId), SessionTTL,
                                        JsonSession(sessionData))
              /\ call' = [call EXCEPT ![p].pc = "ua_risk",
                                      ![p].sessionData = Some(sessionData)]
              /\ UNCHANGED ret
  /\ UNCHANGED << now, isConnected, userNudges, notifications, emitted, issued, ended >>

\* RiskContext with its two thresholds taken in the wrong order.
RiskContext_misordered(engagementScore) ==
  IF engagementScore < MEDIUM_ENGAGEMENT
  THEN Some([type |-> "low_engagement", urgency |-> "high",
             engagementScore |-> engagementScore])
  ELSE IF engagementScore < LOW_ENGAGEMENT
  THEN Some([type |-> "medium_engagement", urgency |-> "medium",
             engagementScore |-> engagementScore])
  ELSE None

\* The trigger context checkDropOffRisk chooses for a score (lines 112-128).
RiskContext(engagementScore) ==
  IF engagementScore < LOW_ENGAGEMENT
  THEN Some([type |-> "low_engagement", urgency |-> "high",
             engagementScore |-> engagementScore])
  ELSE IF engagementScore < MEDIUM_ENGAGEMENT
  THEN Some([type |-> "medium_engagement", urgency |-> "medium",
             engagementScore |-> engagementScore])
  ELSE None

\* checkDropOffRisk after updateActivity's write, up to triggerNudge's read.
checkDropOffRisk(p) ==
  LET f == call[p]
      sessionData == Val(f.sessionData)
      risk == RiskContext(Val(sessionData.engagementScore))
  IN  /\ f.pc = "ua_risk"
      /\ IF IsSome(risk)
         THEN /\ call' = [call EXCEPT ![p] = EnterTrigger(f, sessionData.userId, Val(risk))]
              /\ UNCHANGED ret
         ELSE Finish(p, "none", None, FALSE)
      /\ UNCHANGED << now, isConnected, sessions, userNudges, notifications,
                      emitted, issued, ended >>

\* endSession up to its first await: the session is read for the log.
endSession_getSession(p, sessionId) ==
  /\ call[p].pc = "idle"
  /\ call' = [call EXCEPT ![p] =
                [Idle EXCEPT !.pc = "es_del", !.op = "endSession",
                             !.sessionId = Some(sessionId),
                             !.sessionData = getSession(sessionId)]]
  /\ UNCHANGED << now, isConnected, sessions, userNudges, notifications,
                  emitted, ret, issued, ended >>

Quiet(p) == \A q \in Requests \ {p} : call[q].pc = "idle"

\* endSession_del, were ending a session that was not found an error.
endSession_del_strict(p) ==
  LET sessionId == Val(call[p].sessionId)
      found == IsSome(call[p].sessionData)
  IN  /\ call[p].pc = "es_del"
      /\ sessions' = RedisDel(sessions, sessionId)
      /\ ended' = IF Quiet(p) THEN ended \cup {sessionId} ELSE ended \ {sessionId}
      /\ ret' = [ret EXCEPT ![p] =
                   [NoRet EXCEPT !.op = "endSession",
                                 !.outcome = IF found THEN "returned" ELSE "threw",
                                 !.code = IF found THEN 200 ELSE 500,
                                 !.sessionId = Some(sessionId)]]
      /\ call' = [call EXCEPT ![p] = Done]
      /\ UNCHANGED << now, isConnected, userNudges, notifications, emitted, issued >>

\* endSession line 164, and the route's answer.
endSession_del(p) ==
  LET sessionId == Val(call[p].sessionId)
  IN  /\ call[p].pc = "es_del"
      /\ sessions' = RedisDel(sessions, sessionId)
      /\ ended' = IF Quiet(p) THEN ended \cup {sessionId} ELSE ended \ {sessionId}
      /\ ret' = [ret EXCEPT ![p] =
                   [NoRet EXCEPT !.op = "endSession", !.outcome = "returned",
                                 !.code = 200, !.sessionId = Some(sessionId)]]
      /\ call' = [call EXCEPT ![p] = Done]
      /\ UNCHANGED << now, isConnected, userNudges, notifications, emitted, issued >>

\* The answer is sent: the request is over.
respond(p) ==
  /\ call[p].pc = "done"
  /\ call' = [call EXCEPT ![p] = Idle]
  /\ ret' = [ret EXCEPT ![p] = NoRet]
  /\ UNCHANGED << now, isConnected, sessions, userNudges, notifications, emitted,
                  issued, ended >>

\* ------------------------------------------------------------ environment
Unexpired(keys, t) == [k \in {x \in DOMAIN keys : t < keys[x].expireAt} |-> keys[k]]

\* Time passes; Redis drops the keys whose TTL has run out.
Tick(t) ==
  /\ t > now
  /\ now' = t
  /\ sessions' = Unexpired(sessions, now')
  /\ userNudges' = Unexpired(userNudges, now')
  /\ UNCHANGED << isConnected, notifications, emitted, call, ret, issued, ended >>

\* The client's 'error' / 'end' events, and 'connect' / 'ready'.
Disconnect ==
  /\ isConnected
  /\ isConnected' = FALSE
  /\ UNCHANGED << now, sessions, userNudges, notifications, emitted, call, ret,
                  issued, ended >>

Reconnect ==
  /\ ~isConnected
  /\ isConnected' = TRUE
  /\ UNCHANGED << now, sessions, userNudges, notifications, emitted, call, ret,
                  issued, ended >>

\* ---------------------------------------------------------- specifications
Events == { [type |-> t, activityId |-> a] :
              t \in ActivityTypes, a \in ActivityIds }

Contexts(types, scores) ==
  { [type |-> t, urgency |-> "high", engagementScore |-> s] : t \in types, s \in scores }

\* The steps every handler of the nudge pipeline takes after its call.
NudgeSteps(p) ==
  \/ triggerNudge_decide(p)
  \/ \E raises \in BOOLEAN : sendNudge(p, raises)
  \/ \E raises \in BOOLEAN : sendInAppNotification_emit(p, raises)
  \/ trackNudge(p)

Quiescent == \A q \in Requests : call[q].pc = "idle"

\* Handlers are alike: the second request slot is taken only while the first is busy.
Free(p) == p = "r1" \/ call["r1"].pc # "idle"

\* The bounds of the exploration: how long the user's lists may be when a
\* handler starts a nudge pipeline, how many events a session takes, and
\* when sessions are started.
Room(userId, limit) ==
  Len(History(userId)) < limit /\ Len(notifications[userId]) < limit

Takes(sessionId) ==
  Live(sessions, sessionId) =>
    /\ Stored(sessionId).interactions < MaxInteractions
    /\ Room(Stored(sessionId).userId, MaxSessionNudges)

Fresh(userId) == now \in StartTimes

\* The session routes called one at a time, the store failing and recovering.
NextSession ==
  \/ \E userId \in Users : Fresh(userId) /\ startSession("r1", userId)
  \/ \E sessionId \in issued : getSessionRoute("r1", sessionId)
  \/ \E sessionId \in issued, e \in Events :
       Takes(sessionId) /\ updateActivity_getSession("r1", sessionId, e)
  \/ updateActivity_apply("r1")
  \/ checkDropOffRisk("r1")
  \/ \E sessionId \in issued : endSession_getSession("r1", sessionId)
  \/ endSession_del("r1")
  \/ NudgeSteps("r1")
  \/ respond("r1")
  \/ \E t \in SessionTimes : Quiescent /\ Tick(t)
  \/ Disconnect
  \/ Reconnect

SpecSession == Init /\ [][NextSession]_vars

\* The session routes with two requests in flight, the store available.
NextInterleave ==
  \/ \E p \in Requests, userId \in Users : Free(p) /\ Fresh(userId) /\ startSession(p, userId)
  \/ \E p \in Requests, sessionId \in issued,
        e \in {ev \in Events : ev.type # "activity_completed"} :
       Free(p) /\ Takes(sessionId) /\ updateActivity_getSession(p, sessionId, e)
  \/ \E p \in Requests : updateActivity_apply(p)
  \/ \E p \in Requests : checkDropOffRisk(p)
  \/ \E p \in Requests, sessionId \in issued : Free(p) /\ endSession_getSession(p, sessionId)
  \/ \E p \in Requests : endSession_del(p)
  \/ \E p \in Requests : NudgeSteps(p)
  \/ \E p \in Requests : respond(p)
  \/ \E t \in InterleaveTimes : Quiescent /\ Tick(t)

SpecInterleave == Init /\ [][NextInterleave]_vars

\* triggerNudge called one call at a time, the store available.
NextTrigger ==
  \/ \E userId \in Users, c \in Contexts(TriggerTypes, TriggerScores) :
       Room(userId, MaxNudges) /\ triggerNudge_call("r1", userId, c)
  \/ NudgeSteps("r1")
  \/ respond("r1")
  \/ \E t \in TriggerTimes : Tick(t)

SpecTrigger == Init /\ [][NextTrigger]_vars

\* triggerNudge with two calls in flight, the store available.
NextRace ==
  \/ \E p \in Requests, userId \in Users,
        c \in Contexts({"low_engagement", "medium_engagement"}, TriggerScores) :
       Free(p) /\ Room(userId, MaxNudges) /\ triggerNudge_call(p, userId, c)
  \/ \E p \in Requests : NudgeSteps(p)
  \/ \E p \in Requests : respond(p)
  \/ \E t \in RaceTimes : Quiescent /\ Tick(t)

SpecRace == Init /\ [][NextRace]_vars


\* ------------------------------------------------------------ properties
InLastHourOf(h, t) == {j \in 1..Len(h) : h[j].timestamp <= t /\ t - h[j].timestamp < OneHour}

\* C1: type cooldown. Under sequential triggerNudge calls with the store
\* available, no user's history holds two nudges of the same type less than
\* 6 hours apart (the later one would have been throttled, recording nothing).
C1_TypeCooldown ==
  \A u \in Users :
    LET h == History(u)
    IN  \A a, b \in 1..Len(h) :
          (a < b /\ h[a].type = h[b].type)
            => h[b].timestamp - h[a].timestamp >= CooldownHours * OneHour

\* C2: rate cap. Under sequential triggerNudge calls with the store
\* available, a call deciding while the user's history holds 3 or more nudges
\* less than 1 hour old is throttled and records nothing, whatever its
\* trigger type; and no trailing 1-hour window of a history holds 4 nudges.
C2_RateCap ==
  /\ [](\A u \in Users :
          \A k \in 1..Len(History(u)) :
            Cardinality(InLastHourOf(History(u), History(u)[k].timestamp)) <= RateCap)
  /\ [][\A p \in Requests :
          (/\ call[p].pc = "tn_decide"
           /\ call'[p].pc # "tn_decide"
           /\ Cardinality(InLastHourOf(History(Val(call[p].userId)), now)) >= RateCap)
            => /\ call'[p].pc = "done"
               /\ ret'[p].nudgeOutcome = "throttled"
               /\ ret'[p].nudge = None
               /\ userNudges' = userNudges]_vars

\* C2 witness: a low_engagement trigger was throttled by three nudges of the
\* last hour, none of which has the trigger's type.
C2_Witness ==
  \E p \in Requests :
    /\ call[p].pc = "done"
    /\ ret[p].nudgeOutcome = "throttled"
    /\ ret[p].triggers = << "low_engagement" >>
    /\ \E u \in Users : Cardinality(InLastHourOf(History(u), now)) = RateCap

\* C3: recency input. The score an update stores is the one computed with the
\* minutes since the lastActivity that was stored before the update.
C3_RecencyFromStoredLastActivity ==
  [][\A p \in Requests :
       (call[p].pc = "ua_apply" /\ call'[p].pc = "ua_risk")
         => LET before == Val(call[p].sessionData)
                after == Val(call'[p].sessionData)
            IN  Val(after.engagementScore) =
                  RoundedScore(now - before.startTime, after.interactions,
                               Len(after.completedActivities),
                               now - before.lastActivity)]_vars

\* C4: delivery failure isolation. When the channel sender raises, the
\* handler still gets the nudge back, with status sent and in the history.
C4_DeliveryFailureIsolated ==
  \A p \in Requests :
    (call[p].pc = "done" /\ ret[p].senderRaised)
      => /\ ret[p].nudgeOutcome = "returned"
         /\ IsSome(ret[p].nudge)
         /\ Val(ret[p].nudge).status = "sent"
         /\ \E u \in Users :
              \E k \in 1..Len(History(u)) : History(u)[k].id = Val(ret[p].nudge).id

\* C5: session lifecycle. Once endSession(id) has completed with nothing else
\* in flight (and id was not started again), getSession(id) and
\* updateActivity(id, event) find no session and answer not-found; an update
\* that found no session answers not-found, writes nothing, triggers nothing.
C5_AbsentAfterEnd ==
  [][\A p \in Requests :
       /\ (/\ call[p].pc = "idle"
           /\ call'[p].pc = "done"
           /\ ret'[p].op = "getSession"
           /\ Val(ret'[p].sessionId) \in ended)
            => /\ ret'[p].outcome = "null"
               /\ ret'[p].code = 404
               /\ sessions' = sessions
       /\ (/\ call[p].pc = "idle"
           /\ call'[p].pc = "ua_apply"
           /\ Val(call'[p].sessionId) \in ended)
            => call'[p].sessionData = None
       /\ (/\ call[p].pc = "ua_apply"
           /\ call[p].sessionData = None
           /\ call'[p].pc # "ua_apply")
            => /\ call'[p].pc = "done"
               /\ ret'[p].outcome = "null"
               /\ ret'[p].code = 404
               /\ ret'[p].triggers = << >>
               /\ sessions' = sessions
               /\ userNudges' = userNudges
               /\ notifications' = notifications
               /\ emitted' = emitted]_vars

\* C6: counter monotonicity. No step other than a startSession lowers the
\* stored interactions or pageViews of a session that exists before and
\* after the step, interleaved updateActivity calls included.
C6_CountersMonotone ==
  [][(\A p \in Requests :
        ~(call[p].pc = "idle" /\ call'[p].pc = "done" /\ ret'[p].op = "startSession"))
       => \A sessionId \in DOMAIN sessions \cap DOMAIN sessions' :
            /\ sessions'[sessionId].value.interactions
                 >= sessions[sessionId].value.interactions
            /\ sessions'[sessionId].value.pageViews
                 >= sessions[sessionId].value.pageViews]_vars

\* C7: throttle race. A triggerNudge call decides on the history it read: when
\* another call has recorded a nudge since, and the history as read holds
\* fewer than 3 nudges of the last hour and none of the trigger's type from
\* the last 6 hours, the call is admitted all the same.
C7_AdmittedOnStaleRead ==
  [][\A q \in Requests :
       LET read == call[q].recentNudges
       IN  (/\ call[q].pc = "tn_decide"
            /\ call'[q].pc # "tn_decide"
            /\ Len(History(Val(call[q].userId))) > Len(read)
            /\ Cardinality(InLastHourOf(read, now)) < RateCap
            /\ \A k \in 1..Len(read) :
                 \/ read[k].type # Val(call[q].context).type
                 \/ now - read[k].timestamp >= CooldownHours * OneHour)
             => /\ call'[q].pc = "tn_send"
                /\ IsSome(call'[q].nudge)]_vars

\* C7 witness: both calls have returned their nudge and the user's history
\* holds 4 nudges of the last hour.
C7_Witness ==
  /\ \A p \in Requests : call[p].pc = "done" /\ ret[p].nudgeOutcome = "returned"
  /\ \E u \in Users : Cardinality(InLastHourOf(History(u), now)) = RateCap + 1

\* C8: session lost update. An updateActivity that writes back after another
\* update of the same session was stored since its read (the store holds the
\* counter it read plus 1) leaves the stored interactions where they are: the
\* two updates raise the counter by 1, not 2.
C8_LostUpdate ==
  [][\A q \in Requests :
       (/\ call[q].pc = "ua_apply"
        /\ call'[q].pc = "ua_risk"
        /\ Live(sessions, Val(call[q].sessionId))
        /\ Stored(Val(call[q].sessionId)).interactions
             = Val(call[q].sessionData).interactions + 1)
         => sessions'[Val(call[q].sessionId)].value.interactions
              = Stored(Val(call[q].sessionId)).interactions]_vars

\* C8 witness: two updates of one session are in flight past their write,
\* both computed the same counter, and that is what the store holds.
C8_Witness ==
  \E p, q \in Requests :
    /\ p # q
    /\ call[p].op = "updateActivity" /\ call[q].op = "updateActivity"
    /\ call[p].pc \notin {"ua_apply", "done"} /\ call[q].pc \notin {"ua_apply", "done"}
    /\ call[p].sessionId = call[q].sessionId
    /\ Live(sessions, Val(call[p].sessionId))
    /\ Val(call[p].sessionData).interactions = Val(call[q].sessionData).interactions
    /\ Stored(Val(call[p].sessionId)).interactions = Val(call[p].sessionData).interactions

\* C9: throttle reject has no effect. A throttled triggerNudge returns no
\* nudge and raises nothing, leaves the history, the notification queue and
\* the socket untouched, and the route answers 200 with throttled = true.
C9_ThrottleNoEffect ==
  [][\A p \in Requests :
       (/\ call[p].pc = "tn_decide"
        /\ call[p].op = "triggerNudge"
        /\ call'[p].pc # "tn_decide"
        /\ shouldThrottle(call[p].recentNudges, Val(call[p].context).type, now))
         => /\ call'[p].pc = "done"
            /\ ret'[p].nudgeOutcome = "throttled"
            /\ ret'[p].outcome = "null"
            /\ ret'[p].nudge = None
            /\ ret'[p].code = 200
            /\ ret'[p].throttled
            /\ userNudges' = userNudges
            /\ notifications' = notifications
            /\ emitted' = emitted]_vars

\* C9 witness: the route has answered throttled for a user with nudges in the
\* history and in the notification queue.
C9_Witness ==
  \E p \in Requests :
    /\ call[p].pc = "done"
    /\ ret[p].op = "triggerNudge"
    /\ ret[p].throttled
    /\ \E u \in Users : Len(History(u)) > 0 /\ Len(notifications[u]) > 0

\* C10: risk classification is the sole trigger. An updateActivity that
\* returned the session has called triggerNudge once with low_engagement when
\* the new score is below 0.3, once with medium_engagement when it is at least
\* 0.3 and below 0.6, and not at all when it is 0.6 or more.
C10_RiskIsSoleTrigger ==
  \A p \in Requests :
    (call[p].pc = "done" /\ ret[p].op = "updateActivity" /\ ret[p].outcome = "returned")
      => LET score == Val(Val(ret[p].sessionData).engagementScore)
         IN  ret[p].triggers =
               IF score < LOW_ENGAGEMENT THEN << "low_engagement" >>
               ELSE IF score < MEDIUM_ENGAGEMENT THEN << "medium_engagement" >>
               ELSE << >>

\* C10 witness: an update returned a score of 0.6 or more and triggered nothing.
C10_Witness ==
  \E p \in Requests :
    /\ call[p].pc = "done"
    /\ ret[p].op = "updateActivity"
    /\ ret[p].outcome = "returned"
    /\ Val(Val(ret[p].sessionData).engagementScore) >= MEDIUM_ENGAGEMENT
    /\ ret[p].triggers = << >>

\* ------------------------------------------ strategy and delivery channel
\* Sampled inputs of the nudge routes: scores on each side of the mentor
\* (0.2) and challenge (0.4) thresholds, custom types, every priority.
StrategyTypes == {"low_engagement", "medium_engagement"}
StrategyScores == {15, 25, 50}
CustomTypes == {"reminder", "announcement"}
Priorities == {"high", "medium", "low"}
StrategyTimes == {90, 400}

\* The course completion (in hundredths) the progress database holds for
\* each user; getCourseProgress has no query yet and never reads it.
CourseCompletion == [u \in Users |-> 5]

\* POST /trigger and POST /custom called one call at a time, store available.
NextStrategy ==
  \/ \E userId \in Users, c \in Contexts(StrategyTypes, StrategyScores) :
       Room(userId, MaxSessionNudges) /\ triggerNudge_call("r1", userId, c)
  \/ \E userId \in Users, type \in CustomTypes, priority \in Priorities :
       Room(userId, MaxSessionNudges) /\ customNudge_call("r1", userId, type, priority)
  \/ NudgeSteps("r1")
  \/ respond("r1")
  \/ \E t \in StrategyTimes : Quiescent /\ Tick(t)

SpecStrategy == Init /\ [][NextStrategy]_vars

\* A trigger is admitted by the step leaving tn_decide for tn_send.
Admitted(p) == call[p].pc = "tn_decide" /\ call'[p].pc = "tn_send"

\* The mentor rule's case: score below 0.2 and course completion below 0.1.
MentorCase(p) ==
  /\ Val(call[p].context).engagementScore < MentorScore
  /\ CourseCompletion[Val(call[p].userId)] < MentorCompletion

C12_SelectionPolicy ==
  [][\A p \in Requests :
       (Admitted(p) /\ ~MentorCase(p))
         => LET context == Val(call[p].context)
                profile == getUserNudgeProfile(Val(call[p].userId))
            IN  Val(call'[p].nudge).type =
                  IF context.engagementScore > ChallengeScore /\ profile.prefersChallenges
                  THEN "peer_challenge"
                  ELSE IF context.type = "low_engagement" THEN "reminder"
                       ELSE "motivational"]_vars

\* C12 witness: a medium_engagement trigger with score 0.5 was admitted as a
\* peer_challenge after a low_engagement trigger had left a reminder.
C12_Witness ==
  \E p \in Requests :
    /\ call[p].pc = "tn_send"
    /\ call[p].op = "triggerNudge"
    /\ Val(call[p].context).type = "medium_engagement"
    /\ Val(call[p].context).engagementScore > ChallengeScore
    /\ Val(call[p].nudge).type = "peer_challenge"
    /\ \E k \in 1..Len(History(Val(call[p].userId))) :
         History(Val(call[p].userId))[k].title = "Don't lose momentum!"

\* Every nudge the program holds: in a call frame, in a history, in a
\* notification list.
CreatedNudges ==
  {Val(call[p].nudge) : p \in {q \in Requests : IsSome(call[q].nudge)}}
    \cup UNION {{History(u)[k] : k \in 1..Len(History(u))} : u \in Users}
    \cup UNION {{notifications[u][k].nudge : k \in 1..Len(notifications[u])} : u \in Users}

\* C13: channel mapping. Every created nudge goes by websocket when its
\* priority is high, in_app when medium, email when low, whatever its type.
C13_ChannelByPriority ==
  \A n \in CreatedNudges :
    /\ n.priority = "high" => n.deliveryChannel = "websocket"
    /\ n.priority = "medium" => n.deliveryChannel = "in_app"
    /\ n.priority = "low" => n.deliveryChannel = "email"

\* C13 witness: two nudges of one type went by different channels, one by
\* websocket and one by email.
C13_Witness ==
  \E a, b \in CreatedNudges :
    /\ a.type = b.type
    /\ a.priority = "high" /\ a.deliveryChannel = "websocket"
    /\ b.priority = "low" /\ b.deliveryChannel = "email"

\* ------------------------------------------------------- bounded history
HistoryTimes == {90}

\* The history is first filled, one custom nudge after the other at the
\* starting instant, to one entry below the cap; the oldest entry is the only
\* reminder among them.
Filling(userId) == Len(History(userId)) < HistoryCap - 1 /\ now \in StartTimes

FillType(userId) == IF Len(History(userId)) = 0 THEN "reminder" ELSE "announcement"

\* The entries recorded after the filling.
FreshEntries(userId) ==
  {k \in 1..Len(History(userId)) : History(userId)[k].timestamp \notin StartTimes}

FreshRoom(userId) ==
  /\ ~Filling(userId)
  /\ now \notin StartTimes
  /\ Cardinality(FreshEntries(userId)) < MaxSessionNudges
  /\ Len(notifications[userId]) < MaxSessionNudges

\* POST /trigger and POST /custom, two calls in flight once the history is
\* one entry below its cap.
NextHistory ==
  \/ \E userId \in Users :
       Filling(userId) /\ customNudge_call("r1", userId, FillType(userId), "low")
  \/ \E p \in Requests, userId \in Users :
       Free(p) /\ FreshRoom(userId) /\ customNudge_call(p, userId, FillType(userId), "low")
  \/ \E p \in Requests, userId \in Users, c \in Contexts(StrategyTypes, TriggerScores) :
       Free(p) /\ FreshRoom(userId) /\ triggerNudge_call(p, userId, c)
  \/ \E p \in Requests : NudgeSteps(p)
  \/ \E p \in Requests : respond(p)
  \/ \E t \in HistoryTimes :
       Quiescent /\ (\A userId \in Users : ~Filling(userId)) /\ Tick(t)

SpecHistory == Init /\ [][NextHistory]_vars

\* C14: bounded history. No stored history holds more than 50 entries, and
\* a trackNudge that read 50 entries stores them without the oldest, followed
\* by its own nudge.
C14_BoundedHistory ==
  /\ [](\A u \in Users : Len(History(u)) <= HistoryCap)
  /\ [][\A p \in Requests :
          (call[p].pc = "tn_track" /\ call'[p].pc = "done")
            => LET read == call[p].recentNudges
                   nudge == Val(call[p].nudge)
               IN  /\ nudge.userId \in DOMAIN userNudges'
                   /\ userNudges'[nudge.userId].value =
                        IF Len(read) >= HistoryCap
                        THEN Append(Tail(read), nudge)
                        ELSE Append(read, nudge)]_vars

\* C14 witness: the history holds 50 entries, the newest recorded by a
\* triggered nudge, and the reminder that was recorded first is gone.
C14_Witness ==
  \E u \in Users :
    LET h == History(u)
    IN  /\ Len(h) = HistoryCap
        /\ h[HistoryCap].type = "motivational"
        /\ \A k \in 1..Len(h) : h[k].timestamp \in StartTimes => h[k].type # "reminder"

\* ----------------------------------------------------------- store outage
\* C15: store outage degradation. A handler step taken while Redis is not
\* connected changes no session, history or notification list; getSession and
\* updateActivity reading in the outage answer not found; and no handler
\* finishes by raising unless the socket emit raised.
C15_OutageDegrades ==
  [][\A p \in Requests :
       (~isConnected /\ call'[p] # call[p])
         => /\ sessions' = sessions
            /\ userNudges' = userNudges
            /\ notifications' = notifications
            /\ (call[p].pc = "idle" /\ call'[p].op = "updateActivity")
                 => call'[p].sessionData = None
            /\ (call[p].pc = "ua_apply" /\ call[p].sessionData = None)
                 => ret'[p].outcome = "null" /\ ret'[p].code = 404
            /\ (call[p].pc = "idle" /\ call'[p].pc = "done" /\ ret'[p].op = "getSession")
                 => ret'[p].outcome = "null" /\ ret'[p].code = 404
            /\ (call'[p].pc = "done" /\ ~ret'[p].senderRaised)
                 => ret'[p].outcome # "threw"]_vars

\* C15 witness: in an outage, updateActivity answered not found for a session
\* the store still holds, and a triggerNudge begun before has completed
\* without its nudge reaching the history.
C15_Witness ==
  /\ ~isConnected
  /\ \E p \in Requests :
       /\ call[p].pc = "done"
       /\ ret[p].op = "updateActivity"
       /\ ret[p].code = 404
       /\ Live(sessions, Val(ret[p].sessionId))
       /\ emitted # {}
       /\ \A u \in Users : History(u) = << >>

\* ---------------------------------------------------------------- scoring
MaxScoreSteps == 21
ScoreTimes == {20, 22, 30}
ScoreEvents == {e \in Events : e.type \in {"activity_completed", "heartbeat"}}

\* One session taking up to MaxScoreSteps events, time passing between them,
\* the socket delivering.
NextScore ==
  \/ \E userId \in Users : Fresh(userId) /\ issued = {} /\ startSession("r1", userId)
  \/ \E sessionId \in issued, e \in ScoreEvents :
       /\ Live(sessions, sessionId) => Stored(sessionId).interactions < MaxScoreSteps
       /\ updateActivity_getSession("r1", sessionId, e)
  \/ updateActivity_apply("r1")
  \/ checkDropOffRisk("r1")
  \/ triggerNudge_decide("r1")
  \/ sendNudge("r1", FALSE)
  \/ sendInAppNotification_emit("r1", FALSE)
  \/ trackNudge("r1")
  \/ respond("r1")
  \/ \E t \in ScoreTimes : Quiescent /\ issued # {} /\ Tick(t)

SpecScore == Init /\ [][NextScore]_vars

\* The sessions the store holds, and the scorer's inputs for one of them at
\* the present instant.
StoredSessions == {sessions[k].value : k \in {x \in DOMAIN sessions : Live(sessions, x)}}

DurationOf(s) == now - s.startTime
IdleOf(s) == now - s.lastActivity
ScoreOf(s, interactions, sinceLast) ==
  RoundedScore(DurationOf(s), interactions, Len(s.completedActivities), sinceLast)

\* C16: score boundedness. Every score updateActivity has stored lies
\* between 0 and 1 (0 and 100 hundredths).
C16_ScoreBounded ==
  \A s \in StoredSessions :
    IsSome(s.engagementScore)
      => Val(s.engagementScore) >= 0 /\ Val(s.engagementScore) <= 100

\* C16 witness: a session past every cap (21 events, 6 completions, 30
\* minutes) has the score 1 stored.
C16_Witness ==
  \E s \in StoredSessions :
    /\ s.interactions > InteractionCap
    /\ Len(s.completedActivities) > ActivityCap
    /\ s.engagementScore = Some(100)

\* 400 times the sum the formula gives: 0.30, 0.25, 0.25 and 0.20 of the
\* capped ratios.
FormulaSum400(duration, interactions, completed, sinceLast) ==
    (120 * Min(duration, DurationCap)) \div DurationCap
  + (100 * Min(interactions, InteractionCap)) \div InteractionCap
  + (100 * Min(completed, ActivityCap)) \div ActivityCap
  + (80 * Max(0, RecencyWindow - sinceLast)) \div RecencyWindow

\* k hundredths is the sum rounded to 2 decimals: no other hundredth is nearer.
IsRound2(k, sum400) == 4 * k - sum400 \in -2..2

\* C17: scoring formula. The scorer returns the formula's sum rounded to 2
\* decimals, for the inputs of every stored session at the present instant
\* and for every score updateActivity has stored (computed at lastActivity
\* with recency 0); the 20th event at minute 20 without completions scores
\* 0.65 and triggers no nudge.
C17_ScoringFormula ==
  /\ [](\A s \in StoredSessions :
          LET c == Len(s.completedActivities)
          IN  /\ IsRound2(calculateEngagementScore(s, now),
                          FormulaSum400(DurationOf(s), s.interactions, c, IdleOf(s)))
              /\ IsSome(s.engagementScore)
                   => IsRound2(Val(s.engagementScore),
                               FormulaSum400(s.lastActivity - s.startTime,
                                             s.interactions, c, 0)))
  /\ [][\A p \in Requests :
          (/\ call[p].pc = "ua_risk"
           /\ call'[p] # call[p]
           /\ Val(call[p].sessionData).interactions = 20
           /\ Val(call[p].sessionData).completedActivities = << >>
           /\ Val(call[p].sessionData).timeSpent = 20)
            => /\ Val(call[p].sessionData).engagementScore = Some(65)
               /\ call'[p].pc = "done"
               /\ ret'[p].nudgeOutcome = "none"
               /\ ret'[p].triggers = << >>]_vars

\* C17 witness: the 20th event, at minute 20 of a session without
\* completions, was answered with the score 0.65 and no trigger.
C17_Witness ==
  \E p \in Requests :
    /\ call[p].pc = "done"
    /\ ret[p].op = "updateActivity"
    /\ IsSome(ret[p].sessionData)
    /\ Val(ret[p].sessionData).interactions = 20
    /\ Val(ret[p].sessionData).completedActivities = << >>
    /\ Val(ret[p].sessionData).timeSpent = 20
    /\ Val(ret[p].sessionData).engagementScore = Some(65)
    /\ ret[p].triggers = << >>

\* C18: score monotonicity. For the inputs of every stored session at the
\* present instant, more interactions never give a smaller score and more
\* idle minutes never give a larger one, the other inputs kept.
C18_ScoreMonotone ==
  \A s \in StoredSessions :
    /\ \A more \in s.interactions + 1 .. InteractionCap + 1 :
         ScoreOf(s, more, IdleOf(s)) >= ScoreOf(s, s.interactions, IdleOf(s))
    /\ \A later \in IdleOf(s) + 1 .. RecencyWindow + 1 :
         ScoreOf(s, s.interactions, later) <= ScoreOf(s, s.interactions, IdleOf(s))

\* C18 witness: a session idle for some minutes whose score would rise with
\* one more interaction and fall with one more idle minute.
C18_Witness ==
  \E s \in StoredSessions :
    /\ s.interactions > 0
    /\ IdleOf(s) > 0
    /\ ScoreOf(s, s.interactions + 1, IdleOf(s)) > ScoreOf(s, s.interactions, IdleOf(s))
    /\ ScoreOf(s, s.interactions, IdleOf(s) + 1) < ScoreOf(s, s.interactions, IdleOf(s))

\* -------------------------------------------------- different-type admission
\* The types of the nudges recorded for the user in the last 6 hours.
CooldownTypes(userId) ==
  {History(userId)[k].type :
     k \in {j \in 1..Len(History(userId)) :
              now - History(userId)[j].timestamp < CooldownHours * OneHour}}

\* C19: different-type admission. A trigger deciding with fewer than 3 nudges
\* in the user's last hour, whose strategy gives a nudge type that none of the
\* user's nudges of the last 6 hours has, is admitted.
C19_DifferentTypeAdmitted ==
  [][\A p \in Requests :
       (/\ call[p].pc = "tn_decide"
        /\ call'[p] # call[p]
        /\ Cardinality(InLastHourOf(History(Val(call[p].userId)), now)) < RateCap
        /\ selectNudgeStrategy(Val(call[p].userId), CourseId, Val(call[p].context)).type
             \notin CooldownTypes(Val(call[p].userId)))
         => /\ call'[p].pc = "tn_send"
            /\ IsSome(call'[p].nudge)]_vars

\* C19 witness: a motivational nudge was admitted between 1 and 6 hours
\* after a reminder was recorded.
C19_Witness ==
  \E p \in Requests :
    /\ call[p].pc = "tn_send"
    /\ Val(call[p].nudge).type = "motivational"
    /\ \E k \in 1..Len(History(Val(call[p].userId))) :
         LET n == History(Val(call[p].userId))[k]
         IN  /\ n.type = "reminder"
             /\ now - n.timestamp >= OneHour
             /\ now - n.timestamp < CooldownHours * OneHour

\* ------------------------------------------------------ ending a session
ExpiryTimes == {30, 70}

\* The session routes called one at a time, sessions outliving their TTL or
\* not, the store failing and recovering.
NextExpiry ==
  \/ \E userId \in Users : Fresh(userId) /\ startSession("r1", userId)
  \/ \E sessionId \in issued : getSessionRoute("r1", sessionId)
  \/ \E sessionId \in issued, e \in Events :
       Takes(sessionId) /\ updateActivity_getSession("r1", sessionId, e)
  \/ updateActivity_apply("r1")
  \/ checkDropOffRisk("r1")
  \/ \E sessionId \in issued : endSession_getSession("r1", sessionId)
  \/ endSession_del("r1")
  \/ NudgeSteps("r1")
  \/ respond("r1")
  \/ \E t \in ExpiryTimes : Quiescent /\ Tick(t)
  \/ Disconnect
  \/ Reconnect

SpecExpiry == Init /\ [][NextExpiry]_vars

\* C20: endSession is idempotent. The delete of endSession, on an id the
\* store does not hold (never stored, already ended, or expired), changes no
\* session, history, notification list or emission, and the call is answered
\* without error.
C20_EndSessionIdempotent ==
  [][\A p \in Requests :
       (/\ call[p].pc = "es_del"
        /\ call'[p] # call[p]
        /\ ~Live(sessions, Val(call[p].sessionId)))
         => /\ sessions' = sessions
            /\ userNudges' = userNudges
            /\ notifications' = notifications
            /\ emitted' = emitted
            /\ issued' = issued
            /\ ret'[p].outcome = "returned"
            /\ ret'[p].code = 200]_vars

\* C20 witness: with the store available and holding no session, a second
\* endSession has read nothing for an id that was ended before.
C20_Witness ==
  \E p \in Requests :
    /\ isConnected
    /\ call[p].pc = "es_del"
    /\ call[p].sessionData = None
    /\ Val(call[p].sessionId) \in ended
    /\ sessions = << >>

\* ------------------------------------------------------- session expiry
\* C21: session expiry. startSession and every updateActivity that returns
\* the session leave the session stored with its expiry 3600 s (60 minutes)
\* ahead, and a stored session was started or updated less than 60 minutes
\* ago.
C21_ExpiryRefreshed ==
  /\ [](\A s \in StoredSessions : now - s.lastActivity < SessionTTL)
  /\ [][\A p \in Requests :
          LET started == call[p].pc = "idle" /\ call'[p].pc = "done"
                           /\ ret'[p].op = "startSession"
              updated == call[p].pc = "ua_apply" /\ call'[p].pc = "ua_risk"
              sessionId == IF started THEN Val(ret'[p].sessionId)
                           ELSE Val(call[p].sessionId)
          IN  (started \/ updated)
                => /\ sessionId \in DOMAIN sessions'
                   /\ sessions'[sessionId].expireAt = now + SessionTTL
                   /\ sessions'[sessionId].value.lastActivity = now]_vars

\* ----------------------------------------------------------- nudge status
\* C22: nudge status. A nudge is pending from its creation until sendNudge
\* has dispatched it and sent from then on; between two steps of a call only
\* its status and sentAt change; and every nudge in a stored history is sent.
C22_NudgeStatus ==
  /\ [](\A u \in Users : \A k \in 1..Len(History(u)) :
          History(u)[k].status = "sent" /\ IsSome(History(u)[k].sentAt))
  /\ [](\A p \in Requests :
          IsSome(call[p].nudge)
            => IF call[p].pc \in {"tn_send", "tn_emit"}
               THEN Val(call[p].nudge).status = "pending" /\ Val(call[p].nudge).sentAt = None
               ELSE Val(call[p].nudge).status = "sent")
  /\ [][\A p \in Requests :
          (IsSome(call[p].nudge) /\ IsSome(call'[p].nudge))
            => LET old == Val(call[p].nudge)
                   new == Val(call'[p].nudge)
               IN  /\ [new EXCEPT !.status = old.status, !.sentAt = old.sentAt] = old
                   /\ old.status = "sent" => new.status = "sent"
                   /\ new.status # old.status => call'[p].pc = "tn_track"]_vars

\* C22 witness: a nudge dispatched in-app is in the history as sent, while
\* the copy pushed to the notification list before the dispatch returned is
\* still pending.
C22_Witness ==
  \E u \in Users :
    \E k \in 1..Len(History(u)) : \E j \in 1..Len(notifications[u]) :
      /\ History(u)[k].status = "sent"
      /\ notifications[u][j].nudge.id = History(u)[k].id
      /\ notifications[u][j].nudge.status = "pending"

\* ------------------------------------------------------ event application
MaxEvents == 4
EventIds == {"a1", "a2"}
IdentifiedEvents == { [type |-> t, activityId |-> a] : t \in ActivityTypes, a \in EventIds }

\* One session taking events of every type with two activity ids, one call
\* at a time, the store available.
NextEvents ==
  \/ \E userId \in Users : Fresh(userId) /\ issued = {} /\ startSession("r1", userId)
  \/ \E sessionId \in issued, e \in IdentifiedEvents :
       /\ Live(sessions, sessionId) => Stored(sessionId).interactions < MaxEvents
       /\ updateActivity_getSession("r1", sessionId, e)
  \/ updateActivity_apply("r1")
  \/ checkDropOffRisk("r1")
  \/ NudgeSteps("r1")
  \/ respond("r1")
  \/ \E t \in SessionTimes : Quiescent /\ Tick(t)

SpecEvents == Init /\ [][NextEvents]_vars

\* C23: event application. startSession stores zero counters and an empty
\* completedActivities; every updateActivity that finds the session stores
\* interactions one higher whatever the event type, pageViews one higher for
\* page_view only, and completedActivities with the activityId appended for
\* activity_completed only.
C23_EventApplication ==
  [][\A p \in Requests :
       /\ (call[p].pc = "idle" /\ call'[p].pc = "done" /\ ret'[p].op = "startSession")
            => LET s == sessions'[Val(ret'[p].sessionId)].value
               IN  /\ s.interactions = 0
                   /\ s.pageViews = 0
                   /\ s.completedActivities = << >>
       /\ (call[p].pc = "ua_apply" /\ call'[p].pc = "ua_risk")
            => LET before == sessions[Val(call[p].sessionId)].value
                   after == sessions'[Val(call[p].sessionId)].value
                   e == Val(call[p].activityData)
               IN  /\ after.interactions = before.interactions + 1
                   /\ after.pageViews =
                        before.pageViews + (IF e.type = "page_view" THEN 1 ELSE 0)
                   /\ after.completedActivities =
                        IF e.type = "activity_completed"
                        THEN before.completedActivities \o << e.activityId >>
                        ELSE before.completedActivities
                   /\ call'[p].sessionData = Some(after)]_vars

\* C23 witness: a heartbeat was counted, and the session holds the same
\* activity id twice, in the order of arrival after another id.
C23_Witness ==
  \E s \in StoredSessions :
    /\ s.interactions = Len(s.completedActivities) + 1
    /\ s.pageViews = 0
    /\ s.completedActivities = << "a2", "a1", "a1" >>

\* ---------------------------------------------- end under interleaving
\* C24: end is final under interleaving. An updateActivity that read the
\* session and comes to its write after the session has been evicted does not
\* write it back: the store holds no session under the id after the step.
C24_NoWriteBackAfterEnd ==
  [][\A p \in Requests :
       (/\ call[p].pc = "ua_apply"
        /\ call'[p] # call[p]
        /\ IsSome(call[p].sessionData)
        /\ ~Live(sessions, Val(call[p].sessionId)))
         => Val(call[p].sessionId) \notin DOMAIN sessions']_vars

\* ------------------------------------------------------ history entries
\* C25: no lost history entry. With no triggerNudge call in flight, every
\* nudge a call has returned to its caller is in the user's stored history.
C25_NoLostEntry ==
  (\A q \in Requests : call[q].pc \in {"idle", "done"})
    => \A p \in Requests :
         (call[p].pc = "done" /\ IsSome(ret[p].nudge))
           => \E k \in 1..Len(History(Val(ret[p].nudge).userId)) :
                History(Val(ret[p].nudge).userId)[k] = Val(ret[p].nudge)

\* ------------------------------------------- throttling during an outage
OutageTimes == {30}

\* triggerNudge called one call at a time, the store failing and recovering.
NextOutage ==
  \/ \E userId \in Users, c \in Contexts(StrategyTypes, TriggerScores) :
       Room(userId, MaxNudges) /\ triggerNudge_call("r1", userId, c)
  \/ NudgeSteps("r1")
  \/ respond("r1")
  \/ \E t \in OutageTimes : Quiescent /\ Tick(t)
  \/ Disconnect
  \/ Reconnect

SpecOutage == Init /\ [][NextOutage]_vars

\* C26: throttling during a store outage. A triggerNudge that reads the
\* history while Redis is not connected reads it as empty and is admitted
\* whatever the store holds; the nudge it creates is dispatched, and what it
\* writes in the outage is not recorded.
C26_OutageNeverThrottles ==
  [][\A p \in Requests :
       /\ (~isConnected /\ call[p].pc = "idle" /\ call'[p].pc = "tn_decide")
            => call'[p].recentNudges = << >>
       /\ (call[p].pc = "tn_decide" /\ call'[p] # call[p] /\ call[p].recentNudges = << >>)
            => /\ call'[p].pc = "tn_send"
               /\ Val(call'[p].nudge).status = "pending"
       /\ (~isConnected /\ call[p].pc \in {"tn_send", "tn_track"} /\ call'[p] # call[p])
            => /\ userNudges' = userNudges
               /\ notifications' = notifications
       /\ (call[p].pc = "tn_track" /\ call'[p] # call[p])
            => /\ ret'[p].nudgeOutcome = "returned"
               /\ Val(ret'[p].nudge).status = "sent"]_vars

\* C26 witness: in an outage a nudge has been dispatched on an empty read
\* although the stored history holds 3 nudges of the last hour.
C26_Witness ==
  \E p \in Requests :
    /\ ~isConnected
    /\ call[p].pc = "tn_track"
    /\ call[p].recentNudges = << >>
    /\ Val(call[p].nudge).status = "sent"
    /\ Cardinality(InLastHourOf(History(Val(call[p].userId)), now)) >= RateCap

\* ------------------------------------------------------------ score floor
\* C27: score floor on the activity path. Every score updateActivity stores
\* or hands to triggerNudge is at least 0.20, and no nudge created for an
\* updateActivity call is a mentor_connect.
C27_ScoreFloor ==
  /\ \A s \in StoredSessions :
       IsSome(s.engagementScore) => Val(s.engagementScore) >= MentorScore
  /\ \A p \in Requests :
       call[p].op = "updateActivity"
         => /\ IsSome(call[p].context)
                 => Val(call[p].context).engagementScore >= MentorScore
            /\ IsSome(call[p].nudge) => Val(call[p].nudge).type # "mentor_connect"

\* C27 witness: the first event of a session, at its very start, was scored
\* 0.21 and its low_engagement trigger was admitted as a reminder.
C27_Witness ==
  \E p \in Requests :
    /\ call[p].op = "updateActivity"
    /\ call[p].pc = "tn_send"
    /\ Val(call[p].context).engagementScore = 21
    /\ Val(call[p].sessionData).timeSpent = 0
    /\ Val(call[p].nudge).type = "reminder"

\* ------------------------------------------------------- custom nudges
CustomTimes == {30}

\* POST /custom and POST /trigger called one call at a time, the store
\* available; a trigger may follow MaxNudges recorded nudges.
NextCustom ==
  \/ \E userId \in Users, type \in CustomTypes :
       Room(userId, MaxNudges) /\ customNudge_call("r1", userId, type, "low")
  \/ \E userId \in Users, c \in Contexts(StrategyTypes, TriggerScores) :
       Room(userId, MaxNudges + 1) /\ triggerNudge_call("r1", userId, c)
  \/ NudgeSteps("r1")
  \/ respond("r1")
  \/ \E t \in CustomTimes : Quiescent /\ Tick(t)

SpecCustom == Init /\ [][NextCustom]_vars

\* C28: custom nudges bypass the throttle. An immediate custom nudge is
\* created whatever the history holds and is appended to the history it
\* read; a trigger deciding with 3 or more recorded nudges in the last hour,
\* custom ones included, is throttled.
C28_CustomBypassesThrottle ==
  [][\A p \in Requests :
       /\ (call[p].pc = "idle" /\ "customNudge" \in {call'[p].op, ret'[p].op})
            => /\ call'[p].pc = "tn_send"
               /\ Val(call'[p].nudge).status = "pending"
       /\ (call[p].pc = "tn_track" /\ call[p].op = "customNudge" /\ call'[p] # call[p])
            => /\ ret'[p].nudgeOutcome = "returned"
               /\ History(Val(call[p].userId)) \o << Val(call[p].nudge) >>
                    = userNudges'[Val(call[p].userId)].value
       /\ (/\ call[p].pc = "tn_decide"
           /\ call'[p] # call[p]
           /\ Cardinality(InLastHourOf(History(Val(call[p].userId)), now)) >= RateCap)
            => ret'[p].nudgeOutcome = "throttled"]_vars

\* C28 witness: the history holds 4 custom nudges of one type recorded
\* within one hour, and a trigger that followed them was throttled.
C28_Witness ==
  \E p \in Requests :
    /\ call[p].pc = "done"
    /\ ret[p].op = "triggerNudge"
    /\ ret[p].nudgeOutcome = "throttled"
    /\ \E u \in Users :
         /\ Len(History(u)) > RateCap
         /\ \A k \in 1..Len(History(u)) :
              /\ History(u)[k].type = "announcement"
              /\ History(u)[k].title = "custom"
              /\ now - History(u)[k].timestamp < OneHour

\* ------------------------------------------------------ counter consistency
\* The events that move a counter besides interactions.
CountedEvents == {e \in Events : e.type \in {"page_view", "activity_completed"}}

\* startSession and updateActivity with two requests in flight, the store
\* available.
NextCounters ==
  \/ \E p \in Requests, userId \in Users : Free(p) /\ Fresh(userId) /\ startSession(p, userId)
  \/ \E p \in Requests, sessionId \in issued, e \in CountedEvents :
       Free(p) /\ Takes(sessionId) /\ updateActivity_getSession(p, sessionId, e)
  \/ \E p \in Requests : updateActivity_apply(p)
  \/ \E p \in Requests : checkDropOffRisk(p)
  \/ \E p \in Requests : NudgeSteps(p)
  \/ \E p \in Requests : respond(p)
  \/ \E t \in InterleaveTimes : Quiescent /\ Tick(t)

SpecCounters == Init /\ [][NextCounters]_vars

\* C29: counter consistency. In every stored session the page views and the
\* completed activities together do not exceed the interactions.
C29_CounterConsistency ==
  \A s \in StoredSessions :
    s.pageViews + Len(s.completedActivities) <= s.interactions

\* C29 witness: two overlapping updates, a page view and a completion, both
\* answered with interactions 1; the stored session kept one of them.
C29_Witness ==
  /\ \A p \in Requests :
       /\ call[p].pc = "done"
       /\ ret[p].op = "updateActivity"
       /\ IsSome(ret[p].sessionData)
       /\ Val(ret[p].sessionData).interactions = 1
  /\ Val(ret["r1"].sessionData).pageViews = 1
  /\ Len(Val(ret["r2"].sessionData).completedActivities) = 1
  /\ \E s \in StoredSessions :
       s.interactions = 1 /\ s.pageViews + Len(s.completedActivities) = 1

\* ------------------------------------------- websockets/socketHandler.js
SocketTimes == {10, 20}

\* socket.on('session_start'): the session is started and its id kept in
\* socket.sessionId, over the id of an earlier session_start.
socket_session_start(p, userId) ==
  LET sessionId == SessionId(userId, now)
      sessionData ==
        [userId |-> userId, courseId |-> CourseId, sessionId |-> sessionId,
         startTime |-> now, lastActivity |-> now, interactions |-> 0,
         pageViews |-> 0, timeSpent |-> 0, completedActivities |-> << >>,
         engagementScore |-> None]
  IN  /\ call[p].pc \in {"idle", "sock"}
      /\ sessions' = RedisSetex(sessions, sessionId, SessionTTL, JsonSession(sessionData))
      /\ issued' = issued \cup {sessionId}
      /\ ended' = ended \ {sessionId}
      /\ call' = [call EXCEPT ![p] =
                    [Idle EXCEPT !.pc = "sock", !.op = "socket",
                                 !.userId = Some(userId),
                                 !.sessionId = Some(sessionId)]]
      /\ UNCHANGED << now, isConnected, userNudges, notifications, emitted, ret >>

\* socket.on('disconnect') up to the first await of endSession(socket.sessionId).
socket_disconnect_getSession(p) ==
  /\ call[p].pc = "sock"
  /\ call' = [call EXCEPT ![p].pc = "sock_del",
                          ![p].sessionData = getSession(Val(call[p].sessionId))]
  /\ UNCHANGED << now, isConnected, sessions, userNudges, notifications,
                  emitted, ret, issued, ended >>

\* The delete of that endSession: the disconnect handler has completed.
socket_disconnect_del(p) ==
  LET sessionId == Val(call[p].sessionId)
  IN  /\ call[p].pc = "sock_del"
      /\ sessions' = RedisDel(sessions, sessionId)
      /\ ended' = IF Quiet(p) THEN ended \cup {sessionId} ELSE ended \ {sessionId}
      /\ ret' = [ret EXCEPT ![p] =
                   [NoRet EXCEPT !.op = "disconnect", !.outcome = "returned",
                                 !.sessionId = Some(sessionId)]]
      /\ call' = [call EXCEPT ![p] = Done]
      /\ UNCHANGED << now, isConnected, userNudges, notifications, emitted, issued >>

\* No handler is between two of its awaits.
Settled == call["r1"].pc \in {"idle", "sock"} /\ call["r2"].pc = "idle"

\* One socket starting sessions, sending the activity of its current session
\* and disconnecting once that activity is handled, the store available.
NextSocket ==
  \/ \E userId \in Users : socket_session_start("r1", userId)
  \/ call["r2"].pc = "idle" /\ socket_disconnect_getSession("r1")
  \/ socket_disconnect_del("r1")
  \/ \E e \in CountedEvents :
       /\ call["r1"].pc = "sock"
       /\ Takes(Val(call["r1"].sessionId))
       /\ updateActivity_getSession("r2", Val(call["r1"].sessionId), e)
  \/ updateActivity_apply("r2")
  \/ checkDropOffRisk("r2")
  \/ NudgeSteps("r2")
  \/ \E p \in Requests : respond(p)
  \/ \E t \in SocketTimes : Settled /\ Tick(t)

SpecSocket == Init /\ [][NextSocket]_vars

\* C30: socket session cleanup. When a socket's disconnect handler has
\* completed, the store holds none of the sessions started by session_start.
C30_SocketSessionsEnded ==
  \A p \in Requests :
    (call[p].pc = "done" /\ ret[p].op = "disconnect")
      => \A sessionId \in issued : ~Live(sessions, sessionId)
====
